---- MODULE Spec2Model ----
(***************************************************************************)
(* Model of the Piano ESP API client (piano_api.py): the URL validator,    *)
(* the request authenticator, the single-request executor, the bounded     *)
(* concurrent dispatcher (_fetch_urls under asyncio) and the domain client *)
(* (PianoESP).                                                             *)
(*                                                                         *)
(* Python strings are sequences of tokens: the separators "/", ":" and     *)
(* " " are tokens of their own, every other token is a word made of        *)
(* letters, digits, "+", "-" and ".".  Python values that a caller may     *)
(* pass where the code tests the type are records with a type tag t.       *)
(***************************************************************************)
EXTENDS Integers, Sequences, FiniteSets, TLC

\* ------------------------------------------------------------------ bounds
\* Longest list of campaign ids (or of paths) a caller passes element by
\* element.
MaxIds == 3
\* Longest list of paths a caller passes to request().
MaxPaths == 2
\* Length of the run of equal ids that precedes the tail of a long id list;
\* with the tail it makes a batch larger than the limiter's capacity.
BulkLen == 74
\* Longest path, in tokens, passed to validate_path and get_url on their own.
MaxPathLen == 5
\* Most SessionSingleton objects created in one run.
MaxSessions == 3

\* --------------------------------------------------------- program constants
\* asyncio.Semaphore(75)
SEMAPHORE_VALUE == 75
\* PianoESP(api_key, site_id): the site id the client was constructed with.
SITE_ID == 557

\* os.getenv("API_ENDPOINT").strip('/')
ENDPOINT == <<"https", ":", "/", "/", "api-esp.piano.io">>
\* The api_key the client was constructed with.
API_KEY == "pippo"

\* ------------------------------------------------------------ Python values
PyInt(n) == [t |-> "int", i |-> n, s |-> <<>>]
PyStr(s) == [t |-> "str", i |-> 0, s |-> s]
PyNone == [t |-> "None", i |-> 0, s |-> <<>>]
\* datetime.date(y, m, d): the day number i is y*10000 + m*100 + d.
PyDate(y, m, d) == [t |-> "date", i |-> y * 10000 + m * 100 + d, s |-> <<>>]

\* bool(v) for the values above; a date is always true.
Truthy(v) ==
    CASE v.t = "int" -> v.i # 0
      [] v.t = "str" -> v.s # <<>>
      [] v.t = "None" -> FALSE
      [] OTHER -> TRUE

\* ------------------------------------------------------------------ strings
Range(s) == {s[i] : i \in 1..Len(s)}

RECURSIVE LStrip(_, _)
\* str.lstrip(chars)
LStrip(s, chars) ==
    IF s # <<>> /\ Head(s) \in chars THEN LStrip(Tail(s), chars) ELSE s

RECURSIVE RStrip(_, _)
\* str.rstrip(chars)
RStrip(s, chars) ==
    IF s # <<>> /\ s[Len(s)] \in chars
    THEN RStrip(SubSeq(s, 1, Len(s) - 1), chars)
    ELSE s

\* str.strip(chars); str.strip() is Strip(s, {" "})
Strip(s, chars) == RStrip(LStrip(s, chars), chars)

\* str.find(c): the first index (from 1) of token c, 0 when absent.
Find(s, c) ==
    IF c \in Range(s) THEN CHOOSE i \in 1..Len(s) : s[i] = c /\ \A j \in 1..(i - 1) : s[j] # c
    ELSE 0

\* The tokens that are not characters a URL scheme may contain.
NonSchemeChars == {"/", ":", " ", "?", "&", "="}
\* The word tokens that start with a digit.
NumberWords == {ToString(n) : n \in 0..9}

\* The first i - 1 tokens of u are a URL scheme and u[i] is the ':' after it:
\* they start with a letter and are scheme characters only.
SchemeEndsAt(u, i) ==
    /\ i > 1
    /\ u[1] \notin NumberWords
    /\ \A j \in 1..(i - 1) : u[j] \notin NonSchemeChars

\* urlparse(url).scheme is not empty (urlparse drops leading blanks).
HasScheme(url) == SchemeEndsAt(LStrip(url, {" "}), Find(LStrip(url, {" "}), ":"))

\* rest starts with "//" followed by a host.
StartsWithNetloc(rest) ==
    Len(rest) >= 3 /\ rest[1] = "/" /\ rest[2] = "/" /\ rest[3] \notin {"/", "?"}

\* What follows the scheme of u, the whole of u without a scheme.
AfterScheme(u, i) == IF SchemeEndsAt(u, i) THEN SubSeq(u, i + 1, Len(u)) ELSE u

\* urlparse(url).netloc is not empty.
HasNetloc(url) ==
    StartsWithNetloc(AfterScheme(LStrip(url, {" "}), Find(LStrip(url, {" "}), ":")))

\* A mutation of ValidateStripped: the parsed path is not looked at.
ValidateStrippedEmptyOnly(p) ==
    IF p = <<>>
    THEN [exc |-> "ValueError", value |-> <<>>]
    ELSE [exc |-> "none", value |-> Strip(p, {"/"})]

\* validate_path after path = path.strip().strip('/'): [exc, value].
ValidateStripped(p) ==
    IF p = <<>> \/ HasScheme(p) \/ HasNetloc(p)
    THEN [exc |-> "ValueError", value |-> <<>>]
    ELSE [exc |-> "none", value |-> Strip(p, {"/"})]

\* validate_path(path): [exc, value].
validate_path(path) == ValidateStripped(Strip(Strip(path, {" "}), {"/"}))

\* f"{BaseClient.ENDPOINT}/{v}" for the validated path v.
ComposeUrl(v) ==
    IF v.exc # "none" THEN v
    ELSE [exc |-> "none", value |-> ENDPOINT \o <<"/">> \o v.value]

\* BaseClient.get_url(path): ENDPOINT + "/" + validate_path(path).
get_url(path) == ComposeUrl(validate_path(path))

\* ------------------------------------------------------------ dictionaries
\* A Python dict is a sequence of <<key, value>> pairs in insertion order.
DictKeys(d) == {d[i][1] : i \in 1..Len(d)}

DictGet(d, k) == (CHOOSE i \in 1..Len(d) : d[i][1] = k)

\* The number of entries of d under key k.
DictCount(d, k) == Cardinality({i \in 1..Len(d) : d[i][1] = k})

RECURSIVE DictDel(_, _)
\* del d[k]
DictDel(d, k) ==
    IF d = <<>> THEN <<>>
    ELSE IF Head(d)[1] = k THEN DictDel(Tail(d), k)
    ELSE <<Head(d)>> \o DictDel(Tail(d), k)

RECURSIVE DictSet(_, _, _)
\* d[k] = v: replaces in place, appends a new key.
DictSet(d, k, v) ==
    IF d = <<>> THEN <<<<k, v>>>>
    ELSE IF Head(d)[1] = k THEN <<<<k, v>>>> \o Tail(d)
    ELSE <<Head(d)>> \o DictSet(Tail(d), k, v)

RECURSIVE DictMerge(_, _)
\* {**a, **b}, and httpx's QueryParams(a).merge(b): the keys of b override.
DictMerge(a, b) ==
    IF b = <<>> THEN a
    ELSE DictMerge(DictSet(a, Head(b)[1], Head(b)[2]), Tail(b))

\* str.upper() of a method name.
Upper(m) ==
    CASE m = "get" -> "GET"
      [] m = "post" -> "POST"
      [] m = "put" -> "PUT"
      [] OTHER -> m

\* Two decimal digits, zero padded (strftime's %m and %d).
Pad2(n) == IF n < 10 THEN "0" \o ToString(n) ELSE ToString(n)

\* date.strftime("%Y-%m-%d")
strftime(date) ==
    <<ToString(date.i \div 10000), "-", Pad2((date.i \div 100) % 100), "-",
      Pad2(date.i % 100)>>

\* ---------------------------------------------------------------- transport
\* What the upstream does with a request: client.request raises (an
\* httpx.HTTPError such as a timeout or a connection error, or an exception of
\* another class), or it returns a response with a status code and a content
\* that is JSON text of the value body or is not JSON at all.
Entry(id, hasActive, active) == [Id |-> id, hasActive |-> hasActive, Active |-> active]
Body(key, hasLists, lists) == [key |-> key, hasLists |-> hasLists, lists |-> lists]
NoBody == Body("", FALSE, <<>>)

Response(status, decodable, body) ==
    [raises |-> "none", status_code |-> status, decodable |-> decodable, body |-> body]
Raises(exc) ==
    [raises |-> exc, status_code |-> 0, decodable |-> FALSE, body |-> NoBody]

\* GET /publisher/list/{site_id} returns {"lists": [{..., "Active": bool}, ...]}
CampaignBodies ==
    { Body("campaigns", TRUE,
           <<Entry(1, TRUE, TRUE), Entry(2, TRUE, FALSE), Entry(3, FALSE, FALSE)>>),
      Body("campaigns", TRUE, <<>>),
      Body("campaigns", FALSE, <<>>) }

\* The JSON values the upstream may answer for url: the campaign list for the
\* list path, otherwise a value that carries the last token of the url.
BodiesOf(url) ==
    IF "publisher" \in Range(url) THEN CampaignBodies
    ELSE {Body(url[Len(url)], FALSE, <<>>)}

Behaviours(url) ==
    {Response(200, TRUE, b) : b \in BodiesOf(url)}
    \cup {Response(500, TRUE, NoBody), Response(200, FALSE, NoBody),
          Raises("HTTPError"), Raises("Exception")}

\* Response.raise_for_status() raises HTTPStatusError: the status is not 2xx.
RaiseForStatusRaises(r) == r.status_code \div 100 # 2

\* Response.json() raises JSONDecodeError.
JsonRaises(r) == ~r.decodable

\* ------------------------------------------------------------- BaseClient
\* self.client.params = {"api_key": api_key}
ClientParams == <<<<"api_key", <<API_KEY>>>>>>

\* The keyword arguments of a request: with or without a params mapping.
Kwargs(hasParams, params) == [hasParams |-> hasParams, params |-> params]
NoKwargs == Kwargs(FALSE, <<>>)

\* A path argument: one string, or a list of strings.
StrPath(p) == [isList |-> FALSE, items |-> <<p>>]
ListPath(ps) == [isList |-> TRUE, items |-> ps]

\* The composed urls of a list of paths, or the exception of the first path
\* that does not validate.
UrlsOf(composed) ==
    IF \E i \in 1..Len(composed) : composed[i].exc # "none"
    THEN [exc |-> "ValueError", urls |-> <<>>]
    ELSE [exc |-> "none", urls |-> [i \in 1..Len(composed) |-> composed[i].value]]

\* _prepare_request, the path part, for a list and for a string.  The empty
\* string as a single path becomes None, on which validate_path fails with
\* AttributeError.
PrepareUrls(path) ==
    IF path.isList
    THEN UrlsOf([i \in 1..Len(path.items) |-> get_url(path.items[i])])
    ELSE IF path.items[1] = <<>>
         THEN [exc |-> "AttributeError", urls |-> <<>>]
         ELSE UrlsOf(<<get_url(Strip(path.items[1], {"/"}))>>)

\* A mutation of StripApiKey: the caller's api_key is left in place.
StripApiKeyKept(kwargs) == kwargs

\* _prepare_request, the params part: the caller's api_key is deleted.
StripApiKey(kwargs) ==
    IF "api_key" \in DictKeys(kwargs.params)
    THEN Kwargs(kwargs.hasParams, DictDel(kwargs.params, "api_key"))
    ELSE kwargs

\* _prepare_request for the normalised method m and the prepared urls u.
Prepared(m, u, kwargs) ==
    IF m \notin {"GET", "POST"}
    THEN [exc |-> "ValueError", method |-> m, urls |-> <<>>, kwargs |-> kwargs]
    ELSE IF u.exc # "none"
    THEN [exc |-> u.exc, method |-> m, urls |-> <<>>, kwargs |-> kwargs]
    ELSE [exc |-> "none", method |-> m, urls |-> u.urls, kwargs |-> StripApiKey(kwargs)]

\* BaseClient._prepare_request: [exc, method, urls, kwargs].
_prepare_request(path, method, kwargs) ==
    Prepared(IF method # "" THEN Upper(method) ELSE "GET", PrepareUrls(path), kwargs)

\* A mutation of WireRequest: the params of the call are not sent.
WireRequestNoParams(method, url, clientParams, params) ==
    [method |-> method, url |-> url, query |-> clientParams]

\* A request as the transport sees it: httpx merges the client's params with
\* the params of the call.
WireRequest(method, url, clientParams, params) ==
    [method |-> method, url |-> url, query |-> DictMerge(clientParams, params)]

\* What a call gives back to its caller: a value or an exception.  The value
\* is one decoded body (isList false, one item) or a list.
Return(isList, items) == [kind |-> "return", exc |-> "none", isList |-> isList, items |-> items]
Raise(exc) == [kind |-> "raise", exc |-> exc, isList |-> FALSE, items |-> <<>>]
NoReturn == [kind |-> "none", exc |-> "none", isList |-> FALSE, items |-> <<>>]

\* A mutation of PlainOutcome: a response with an error status is decoded
\* and returned.
PlainOutcomeNoStatusCheck(b) ==
    IF b.raises = "HTTPError" THEN Raise("PianoResponseError")
    ELSE IF b.raises # "none" THEN Raise(b.raises)
    ELSE IF JsonRaises(b) THEN Raise("PianoResponseError")
    ELSE Return(FALSE, <<b.body>>)

\* _plain_request after the request was prepared: the try block around
\* client.request, raise_for_status and json, for the behaviour b of the
\* transport.
PlainOutcome(b) ==
    IF b.raises = "HTTPError" THEN Raise("PianoResponseError")
    ELSE IF b.raises # "none" THEN Raise(b.raises)
    ELSE IF RaiseForStatusRaises(b) THEN Raise("PianoResponseError")
    ELSE IF JsonRaises(b) THEN Raise("PianoResponseError")
    ELSE Return(FALSE, <<b.body>>)

\* ------------------------------------------------------------------- state
VARIABLES
    pc,            \* "idle": no call is running; "gather": inside
                   \* asyncio.run(_fetch_urls(...)), awaiting asyncio.gather;
                   \* "done": the call has returned or raised to its caller
    op,            \* the public call made last, with its arguments
    route,         \* the path request() took: "none", "plain" or "batch"
    inner,         \* what request() gave back to the public method
    ret,           \* what the public call gave back to its caller
    requests,      \* the requests handed to the transport during the call
    transport,     \* what the upstream does with a request for each url
    urls,          \* _fetch_urls: the urls of the batch
    task,          \* _fetch_urls: the state of each task of the batch
    sem_value,     \* asyncio.Semaphore._value
    waiters,       \* asyncio.Semaphore._waiters that were not woken yet
    async_client,  \* the AsyncClient of the batch: "none", "open", "closed"
    async_params,  \* the params the AsyncClient was created with
    batch_method,  \* the method of the batch
    first_done,    \* the task that completed first in the batch (0: none yet)
    builder,       \* db.py: the fields of a PyDBCBuilder
    _instance,     \* db.py: SessionSingleton._instance (0: None, else a session)
    sessions,      \* db.py: the SessionSingleton objects created so far
    env,           \* db.py: the process environment (os.getenv)
    db_call        \* db.py: the call made last and what it gave back

vars == <<pc, op, route, inner, ret, requests, transport, urls, task, sem_value,
          waiters, async_client, async_params, batch_method, first_done,
          builder, _instance, sessions, env, db_call>>

dbVars == <<builder, _instance, sessions, env, db_call>>

batchVars == <<urls, task, sem_value, waiters, async_client, async_params,
               batch_method, first_done>>

\* The public calls.
OpNone == [name |-> "none", path |-> ListPath(<<>>), method |-> "", kwargs |-> NoKwargs,
           c_id |-> ListPath(<<>>), start_date |-> PyNone, end_date |-> PyNone,
           filter_active |-> FALSE]
OpRequest(path, method, kwargs) ==
    [OpNone EXCEPT !.name = "request", !.path = path, !.method = method, !.kwargs = kwargs]
OpGetAllCampaign(filter_active) ==
    [OpNone EXCEPT !.name = "get_all_campaign", !.filter_active = filter_active]
OpGetCampaignStats(c_id, start_date, end_date) ==
    [OpNone EXCEPT !.name = "get_campaign_stats", !.c_id = c_id,
                   !.start_date = start_date, !.end_date = end_date]

NoTransport == [u \in {} |-> Raises("HTTPError")]

\* The transports of a call that requests the urls us: one behaviour per url.
TransportsFor(us) ==
    {f \in [Range(us) -> UNION {Behaviours(u) : u \in Range(us)}] :
        \A u \in Range(us) : f[u] \in Behaviours(u)}

\* PyDBCBuilder(): the class attributes are the fields of a new builder.
NewBuilder ==
    [_driver |-> PyNone, _username |-> PyStr(<<>>), _password |-> PyStr(<<>>),
     _host |-> PyStr(<<>>), _port |-> PyInt(0), _database_name |-> PyNone,
     _params |-> <<>>]

\* An environment variable that is not set: os.getenv gives None.
Unset == PyNone

\* The environment without any of the DB_ variables.
NoEnv ==
    [URL |-> Unset, DRIVER |-> Unset, USERNAME |-> Unset, PASSWORD |-> Unset,
     HOST |-> Unset, PORT |-> Unset, NAME |-> Unset]

\* A call of db.py: its name, its argument (a value, or the session it is a
\* method of), the builder and the registered session before it, the
\* exception it raised and the value or the session it returned.
DbCall(name, arg, self, exc, value, handle) ==
    [name |-> name, arg |-> arg, self |-> self,
     self_closed |-> IF self \in 1..Len(sessions) THEN sessions[self].closed ELSE FALSE,
     before |-> builder, registered |-> _instance, created |-> Len(sessions),
     exc |-> exc, value |-> value, handle |-> handle]

NoDbCall ==
    [name |-> "none", arg |-> PyNone, self |-> 0, self_closed |-> FALSE,
     before |-> NewBuilder, registered |-> 0, created |-> 0,
     exc |-> "none", value |-> PyNone, handle |-> 0]

\* db.py as imported: no session is registered, no call was made.
DbInit ==
    /\ builder = NewBuilder
    /\ _instance = 0
    /\ sessions = <<>>
    /\ db_call = NoDbCall

\* The client as constructed: no call is running.
ClientInit ==
    /\ pc = "idle"
    /\ op = OpNone
    /\ route = "none"
    /\ inner = NoReturn
    /\ ret = NoReturn
    /\ requests = <<>>
    /\ transport = NoTransport
    /\ urls = <<>>
    /\ task = <<>>
    /\ sem_value = 0
    /\ waiters = <<>>
    /\ async_client = "none"
    /\ async_params = <<>>
    /\ batch_method = ""
    /\ first_done = 0

Init ==
    /\ ClientInit
    /\ DbInit
    /\ env = NoEnv

\* No batch is running and none has run in this call.
NoBatch ==
    /\ urls' = <<>>
    /\ task' = <<>>
    /\ sem_value' = 0
    /\ waiters' = <<>>
    /\ async_client' = "none"
    /\ async_params' = <<>>
    /\ batch_method' = ""
    /\ first_done' = 0

\* The call ends before any request; request() gave r back.
EndEarly(r) ==
    /\ pc' = "done"
    /\ inner' = r
    /\ requests' = <<>>
    /\ transport' = NoTransport
    /\ NoBatch

\* BaseClient._plain_request(path, method, **kwargs).
PlainRequest(path, method, kwargs) ==
    \E prep \in {_prepare_request(path, method, kwargs)} :
        /\ route' = "plain"
        /\ IF prep.exc # "none"
           THEN EndEarly(Raise(prep.exc))
           ELSE \E b \in Behaviours(prep.urls[1]) :
                  /\ pc' = "done"
                  /\ requests' = <<WireRequest(prep.method, prep.urls[1], ClientParams,
                                               prep.kwargs.params)>>
                  /\ transport' = [u \in {prep.urls[1]} |-> b]
                  /\ inner' = PlainOutcome(b)
                  /\ NoBatch

\* BaseClient._batch_request(paths, method, **kwargs) up to the start of
\* asyncio.run(_fetch_urls(...)): the urls are prepared, the api_key is put in
\* front of the caller's params, the limiter and the AsyncClient are created
\* and one task per url is created.
BatchRequest(paths, method, kwargs) ==
    \E prep \in {_prepare_request(paths, method, kwargs)} :
        /\ route' = "batch"
        /\ IF prep.exc # "none"
           THEN EndEarly(Raise(prep.exc))
           ELSE \E tr \in TransportsFor(prep.urls) :
                  /\ pc' = "gather"
                  /\ inner' = NoReturn
                  /\ requests' = <<>>
                  /\ transport' = tr
                  /\ urls' = prep.urls
                  /\ task' = [i \in 1..Len(prep.urls) |-> "created"]
                  /\ sem_value' = SEMAPHORE_VALUE
                  /\ waiters' = <<>>
                  /\ async_client' = "open"
                  /\ async_params' = DictMerge(ClientParams, prep.kwargs.params)
                  /\ batch_method' = prep.method
                  /\ first_done' = 0

\* BaseClient.request(path, method, **kwargs)
request(path, method, kwargs) ==
    IF path.isList
    THEN BatchRequest(path, method, kwargs)
    ELSE PlainRequest(path, method, kwargs)

\* ------------------------------------------------------------------ limiter
\* A mutation of Locked: the limiter admits every task.
LockedNever(value, ws) == FALSE

\* asyncio.Semaphore.locked(): no permit is free, or a task is waiting.
Locked(value, ws) == value = 0 \/ ws # <<>>

\* A mutation of Release: a task that leaves the limiter keeps its permit.
ReleaseLost(value) == value

\* asyncio.Semaphore.release() with no task waiting: the permit is free again.
Release(value) == value + 1

\* The states a task ends in: client.request returned a response, the task
\* returned None after an HTTPError, the task raised another exception.
Terminal == {"response", "None", "exception"}

InFlight == {i \in 1..Len(task) : task[i] = "inflight"}

\* The state a task ends in when the transport behaves as b.
TaskEnd(b) ==
    CASE b.raises = "none" -> "response"
      [] b.raises = "HTTPError" -> "None"
      [] OTHER -> "exception"

\* The event loop runs the first step of the tasks in the order gather
\* created them.  _fetch_url_with_semaphore enters the limiter: with a free
\* permit it takes it and calls client.request, otherwise it queues.
TaskStart(i) ==
    /\ task[i] = "created"
    /\ \A j \in 1..(i - 1) : task[j] # "created"
    /\ IF Locked(sem_value, waiters)
       THEN /\ task' = [task EXCEPT ![i] = "waiting"]
            /\ waiters' = Append(waiters, i)
            /\ UNCHANGED <<sem_value, requests>>
       ELSE /\ task' = [task EXCEPT ![i] = "inflight"]
            /\ sem_value' = sem_value - 1
            /\ requests' = Append(requests,
                                  WireRequest(batch_method, urls[i], async_params, <<>>))
            /\ UNCHANGED waiters
    /\ UNCHANGED <<pc, op, route, inner, ret, transport, urls, async_client, async_params,
                   batch_method, first_done>>

\* A mutation of Releases: a task that ends by an exception other than
\* HTTPError keeps its permit.
ReleasesUnlessRaised(outcome) == outcome \in {"response", "None"}

\* The task leaves 'async with semaphore' and releases its permit on every
\* outcome: the response returned, None returned, an exception raised.
Releases(outcome) == outcome \in Terminal

\* client.request of task i ends as the transport decides; the task leaves
\* the limiter, whatever the outcome: release() frees the permit and hands it
\* to the first waiter, if any.  Requests for the same url are
\* interchangeable: of those in flight, the one sent first ends first.
TaskComplete(i) ==
    /\ task[i] = "inflight"
    /\ ~\E k \in 1..(i - 1) : task[i - k] = "inflight" /\ urls[i - k] = urls[i]
    /\ first_done' = IF first_done = 0 THEN i ELSE first_done
    /\ IF ~Releases(TaskEnd(transport[urls[i]]))
       THEN /\ task' = [task EXCEPT ![i] = TaskEnd(transport[urls[i]])]
            /\ UNCHANGED <<sem_value, waiters>>
       ELSE IF waiters # <<>>
       THEN /\ task' = [task EXCEPT ![i] = TaskEnd(transport[urls[i]]),
                                    ![Head(waiters)] = "woken"]
            /\ waiters' = Tail(waiters)
            /\ UNCHANGED sem_value
       ELSE /\ task' = [task EXCEPT ![i] = TaskEnd(transport[urls[i]])]
            /\ sem_value' = Release(sem_value)
            /\ UNCHANGED waiters
    /\ UNCHANGED <<pc, op, route, inner, ret, requests, transport, urls, async_client,
                   async_params, batch_method>>

\* A woken task resumes in acquire() holding the permit it was handed and
\* calls client.request.  Woken tasks resume in the order they were woken.
TaskResume(i) ==
    /\ task[i] = "woken"
    /\ \A j \in 1..(i - 1) : task[j] # "woken"
    /\ task' = [task EXCEPT ![i] = "inflight"]
    /\ requests' = Append(requests, WireRequest(batch_method, urls[i], async_params, <<>>))
    /\ UNCHANGED <<pc, op, route, inner, ret, transport, urls, sem_value, waiters,
                   async_client, async_params, batch_method, first_done>>

\* A mutation of GatherDone: gather returns as soon as one task has ended.
GatherDoneFirst == \E i \in 1..Len(task) : task[i] \in Terminal

\* asyncio.gather(*tasks, return_exceptions=True) returns: every task ended.
GatherDone == \A i \in 1..Len(task) : task[i] \in Terminal

RECURSIVE CollectReversed(_, _)
\* A mutation of Collect: the responses are put in front of the list.
CollectReversed(i, acc) ==
    IF i > Len(task) THEN [exc |-> "none", responses |-> acc]
    ELSE IF task[i] = "None" THEN CollectReversed(i + 1, acc)
    ELSE IF task[i] = "exception" THEN [exc |-> "AttributeError", responses |-> acc]
    ELSE IF RaiseForStatusRaises(transport[urls[i]]) THEN CollectReversed(i + 1, acc)
    ELSE CollectReversed(i + 1, <<transport[urls[i]]>> \o acc)

RECURSIVE CollectAbort(_, _)
\* A mutation of Collect: the HTTPStatusError of a response is not caught.
CollectAbort(i, acc) ==
    IF i > Len(task) THEN [exc |-> "none", responses |-> acc]
    ELSE IF task[i] = "None" THEN CollectAbort(i + 1, acc)
    ELSE IF task[i] = "exception" THEN [exc |-> "AttributeError", responses |-> acc]
    ELSE IF RaiseForStatusRaises(transport[urls[i]])
    THEN [exc |-> "HTTPStatusError", responses |-> acc]
    ELSE CollectAbort(i + 1, Append(acc, transport[urls[i]]))

RECURSIVE Collect(_, _)
\* _fetch_urls, the loop over the results of gather from the i-th on, in the
\* order of the tasks: None is skipped; an exception object has no
\* raise_for_status, the AttributeError ends the loop; a response whose
\* status is an error is logged and skipped; the others are appended.
Collect(i, acc) ==
    IF i > Len(task) THEN [exc |-> "none", responses |-> acc]
    ELSE IF task[i] = "None" THEN Collect(i + 1, acc)
    ELSE IF task[i] = "exception" THEN [exc |-> "AttributeError", responses |-> acc]
    ELSE IF RaiseForStatusRaises(transport[urls[i]]) THEN Collect(i + 1, acc)
    ELSE Collect(i + 1, Append(acc, transport[urls[i]]))

\* A mutation of BatchOutcome: an undecodable body is dropped.
BatchOutcomeDropUndecodable(fetched) ==
    IF fetched.exc # "none" THEN Raise(fetched.exc)
    ELSE Return(TRUE, [i \in 1..Len(SelectSeq(fetched.responses, LAMBDA r : ~JsonRaises(r)))
                        |-> SelectSeq(fetched.responses, LAMBDA r : ~JsonRaises(r))[i].body])

\* _batch_request after asyncio.run: an exception of _fetch_urls propagates;
\* the first body that does not decode raises PianoResponseError; otherwise
\* the list of the decoded bodies.
BatchOutcome(fetched) ==
    IF fetched.exc # "none" THEN Raise(fetched.exc)
    ELSE IF \E i \in 1..Len(fetched.responses) : JsonRaises(fetched.responses[i])
    THEN Raise("PianoResponseError")
    ELSE Return(TRUE, [i \in 1..Len(fetched.responses) |-> fetched.responses[i].body])

\* gather returns, _fetch_urls runs its loop and leaves the AsyncClient
\* block (the client is closed on return and on exception), asyncio.run
\* returns and _batch_request returns or raises to its caller.
GatherReturn ==
    /\ pc = "gather"
    /\ GatherDone
    /\ pc' = "done"
    /\ async_client' = "closed"
    /\ inner' = BatchOutcome(Collect(1, <<>>))
    /\ ret' = inner'
    /\ UNCHANGED <<op, route, requests, transport, urls, task, sem_value, waiters,
                   async_params, batch_method, first_done>>
    /\ UNCHANGED dbVars

\* ----------------------------------------------------------------- PianoESP
\* f"/publisher/list/{self.site_id}"
CampaignListPath == <<"/", "publisher", "/", "list", "/", ToString(SITE_ID)>>

\* active.get('Active') is true.
IsActive(e) == e.hasActive /\ e.Active

\* campaign.get('lists', [])
ListsOf(campaign) == IF campaign.hasLists THEN campaign.lists ELSE <<>>

\* The list get_all_campaign returns for the 'lists' of the body.
Campaigns(lists, filter_active) ==
    Return(TRUE, IF filter_active THEN SelectSeq(lists, IsActive) ELSE lists)

\* A mutation of AllCampaignResult: a PianoResponseError is raised again.
AllCampaignResultReraise(r, filter_active) ==
    IF r.kind = "raise" THEN r
    ELSE Campaigns(ListsOf(r.items[1]), filter_active)

\* get_all_campaign after self.request: a PianoResponseError is logged and
\* the empty list returned, another exception propagates; the 'lists' of the
\* decoded body (the empty list without that key), filtered on demand.
AllCampaignResult(r, filter_active) ==
    IF r.kind = "raise"
    THEN IF r.exc = "PianoResponseError" THEN Return(TRUE, <<>>) ELSE r
    ELSE Campaigns(ListsOf(r.items[1]), filter_active)

\* PianoESP.get_all_campaign(filter_active)
get_all_campaign(filter_active) ==
    /\ op' = OpGetAllCampaign(filter_active)
    /\ PlainRequest(StrPath(CampaignListPath), "GET", NoKwargs)
    /\ ret' = AllCampaignResult(inner', filter_active)

\* "/stats/campaigns/full"
BASE_PATH == <<"/", "stats", "/", "campaigns", "/", "full">>

\* A mutation of InvalidId: only the first id of the list is validated.
InvalidIdFirstOnly(ids, k) ==
    k = 1 /\ (~Truthy(ids[k]) \/ ids[k].t # "int" \/ ids[k].i <= 0)

\* get_campaign_stats raises on the k-th id: it is not a positive integer.
InvalidId(ids, k) == ~Truthy(ids[k]) \/ ids[k].t # "int" \/ ids[k].i <= 0

\* get_campaign_stats raises on the date: it is missing or no datetime.date.
InvalidDate(d) == ~Truthy(d) \/ d.t # "date"

\* A mutation of StatsPath: a one-element list stays a list.
StatsPathAlwaysList(ps) == ListPath(ps)

\* urls = urls[0] if len(urls) == 1 else urls
StatsPath(ps) == IF Len(ps) = 1 THEN StrPath(ps[1]) ELSE ListPath(ps)

\* PianoESP.get_campaign_stats(c_id, start_date=, end_date=); c_id is a list
\* (isList) or one value (the only item).
get_campaign_stats(c_id, start_date, end_date) ==
    LET ids == c_id.items
        paths == [k \in 1..Len(ids) |-> BASE_PATH \o <<"/", ToString(ids[k].i)>>]
    IN  /\ op' = OpGetCampaignStats(c_id, start_date, end_date)
        /\ IF \/ \E k \in 1..Len(ids) : InvalidId(ids, k)
              \/ InvalidDate(start_date)
              \/ InvalidDate(end_date)
           THEN /\ route' = "none"
                /\ EndEarly(NoReturn)
                /\ ret' = Raise("ValueError")
           ELSE /\ request(StatsPath(paths), "GET",
                           Kwargs(TRUE, <<<<"date_start", strftime(start_date)>>,
                                          <<"date_end", strftime(end_date)>>>>))
                /\ ret' = inner'

\* ------------------------------------------------------------------- inputs
\* All sequences over S of a length from lo to hi.
SeqsOf(S, lo, hi) == UNION {[1..n -> S] : n \in lo..hi}

\* The values a caller passes as a campaign id.
IdValues == {PyInt(-1), PyInt(0), PyInt(1), PyInt(2), PyStr(<<>>)}

\* The id arguments: one value, or a list of at most MaxIds values.
ShortIds ==
    {[isList |-> FALSE, items |-> <<v>>] : v \in IdValues}
    \cup {[isList |-> TRUE, items |-> l] : l \in SeqsOf(IdValues, 0, MaxIds)}

\* A list longer than the limiter's capacity: BulkLen times the id 1, then 2, 1.
LongIds ==
    {[isList |-> TRUE, items |-> [k \in 1..BulkLen |-> PyInt(1)] \o <<PyInt(2), PyInt(1)>>]}

StartDates == {PyDate(2026, 1, 1), PyNone, PyStr(<<>>)}
EndDates == {PyDate(2026, 12, 31), PyNone, PyStr(<<"2026-12-31">>)}

\* The arguments of get_campaign_stats.
StatsArgs ==
    (ShortIds \X StartDates \X EndDates)
    \cup (LongIds \X {PyDate(2026, 1, 1)} \X {PyDate(2026, 12, 31)})

\* The paths a caller passes to request(): "/foo", "bar/", "/", "" and
\* "https://evil.example/foo".
PathValues ==
    { <<"/", "foo">>, <<"bar", "/">>, <<"/">>, <<>>,
      <<"https", ":", "/", "/", "evil.example", "/", "foo">> }

PathArgs ==
    {StrPath(p) : p \in PathValues}
    \cup {ListPath(l) : l \in SeqsOf(PathValues, 0, MaxPaths)}

\* "" stands for a call without a method (None).
MethodValues == {"", "post", "PUT"}

KwargsValues ==
    { NoKwargs,
      Kwargs(TRUE, <<<<"bar", <<"baz">>>>>>),
      Kwargs(TRUE, <<<<"bar", <<"baz">>>>, <<"api_key", <<"dp">>>>>>) }

\* ------------------------------------------------------------ specification
\* A caller calls client.request(path, method, **kwargs).
CallRequest ==
    /\ pc = "idle"
    /\ \E path \in PathArgs, method \in MethodValues, kwargs \in KwargsValues :
        /\ op' = OpRequest(path, method, kwargs)
        /\ request(path, method, kwargs)
        /\ ret' = inner'
    /\ UNCHANGED dbVars

\* A caller calls esp.get_all_campaign(filter_active).
CallGetAllCampaign ==
    /\ pc = "idle"
    /\ \E filter_active \in BOOLEAN : get_all_campaign(filter_active)
    /\ UNCHANGED dbVars

\* A caller calls esp.get_campaign_stats(c_id, start_date=, end_date=).
CallGetCampaignStats ==
    /\ pc = "idle"
    /\ \E a \in StatsArgs : get_campaign_stats(a[1], a[2], a[3])
    /\ UNCHANGED dbVars

\* The caller goes on with what the call gave back; the frames of the call,
\* with the limiter, the AsyncClient and the tasks of its batch, are gone.
CallerContinues ==
    /\ pc = "done"
    /\ pc' = "idle"
    /\ op' = OpNone
    /\ route' = "none"
    /\ inner' = NoReturn
    /\ ret' = NoReturn
    /\ requests' = <<>>
    /\ transport' = NoTransport
    /\ NoBatch
    /\ UNCHANGED dbVars

\* A task of the running batch takes a step.
TaskStep ==
    /\ pc = "gather"
    /\ \E i \in 1..Len(task) : TaskStart(i) \/ TaskComplete(i) \/ TaskResume(i)
    /\ UNCHANGED dbVars

Next ==
    \/ CallRequest
    \/ CallGetAllCampaign
    \/ CallGetCampaignStats
    \/ TaskStep
    \/ GatherReturn
    \/ CallerContinues

Spec == Init /\ [][Next]_vars

\* ------------------------------------------------- the validator on its own
\* The tokens of the paths passed to validate_path and get_url.
PathTokens == {"/", ":", " ", "https", "evil.example"}

PathStrings == SeqsOf(PathTokens, 0, MaxPathLen)

\* What a function that returns a string or raises gives back.
StringResult(v) ==
    IF v.exc # "none" THEN Raise(v.exc) ELSE Return(FALSE, <<v.value>>)

\* A caller calls validate_path(path).
CallValidatePath ==
    /\ pc = "idle"
    /\ \E p \in PathStrings :
        /\ op' = [OpNone EXCEPT !.name = "validate_path", !.path = StrPath(p)]
        /\ route' = "none"
        /\ EndEarly(StringResult(validate_path(p)))
        /\ ret' = inner'
    /\ UNCHANGED dbVars

\* A caller calls BaseClient.get_url(path).
CallGetUrl ==
    /\ pc = "idle"
    /\ \E p \in PathStrings :
        /\ op' = [OpNone EXCEPT !.name = "get_url", !.path = StrPath(p)]
        /\ route' = "none"
        /\ EndEarly(StringResult(get_url(p)))
        /\ ret' = inner'
    /\ UNCHANGED dbVars

NextUrl ==
    \/ CallValidatePath
    \/ CallGetUrl
    \/ CallerContinues

SpecUrl == Init /\ [][NextUrl]_vars

\* ------------------------------------------- specification of the batches
\* The campaign ids of the batches: lists of at most MaxIds valid ids, and a
\* list longer than the limiter's capacity, BulkLen + 2 times the id 1.
BatchIds ==
    {[isList |-> TRUE, items |-> l] : l \in SeqsOf({PyInt(1), PyInt(2)}, 0, MaxIds)}
    \cup {[isList |-> TRUE, items |-> [k \in 1..(BulkLen + 2) |-> PyInt(1)]]}

\* A caller calls esp.get_campaign_stats with a list of valid ids and dates.
CallStatsOfList ==
    /\ pc = "idle"
    /\ \E c_id \in BatchIds :
           get_campaign_stats(c_id, PyDate(2026, 1, 1), PyDate(2026, 12, 31))
    /\ UNCHANGED dbVars

NextBatch ==
    \/ CallStatsOfList
    \/ TaskStep
    \/ GatherReturn
    \/ CallerContinues

\* The event loop runs every task that can take a step, every network
\* operation ends, and gather returns once all tasks have ended.  No caller
\* is obliged to call.
FairSpec == Init /\ [][NextBatch]_vars /\ WF_vars(TaskStep) /\ WF_vars(GatherReturn)

\* ------------------------------------------------------------------- claims
\* What the transport does with the request of task i.
BehaviourOf(i) == transport[urls[i]]

\* The request succeeds: a 2xx response whose body decodes.
Succeeds(b) == b.raises = "none" /\ b.status_code \in 200..299 /\ b.decodable
\* The request fails by a transport error (timeout, connection error).
TransportFails(b) == b.raises = "HTTPError"
\* The request fails by a status that is not 2xx.
StatusFails(b) == b.raises = "none" /\ b.status_code \notin 200..299
\* The response has a 2xx status and a body that is not JSON.
DecodeFails(b) == b.raises = "none" /\ b.status_code \in 200..299 /\ ~b.decodable

\* A batch has run and _batch_request has handed its outcome to the caller.
BatchEnded == pc = "done" /\ route = "batch" /\ async_client = "closed"

\* The tasks of the batch whose request succeeds.
Successful == {i \in 1..Len(urls) : Succeeds(BehaviourOf(i))}

\* Every request of the batch succeeds or fails by a transport error or a
\* status that is not 2xx.
OnlyTransportOrStatusFailures ==
    \A i \in 1..Len(urls) :
        \/ Succeeds(BehaviourOf(i))
        \/ TransportFails(BehaviourOf(i))
        \/ StatusFails(BehaviourOf(i))

\* The number of items of the returned list that are the body b.
Occurrences(items, b) == Cardinality({k \in 1..Len(items) : items[k] = b})

\* C1: at every moment of a batch the number of requests inside
\* client.request is at most 75, also for a batch of more than 75
\* descriptors.
C1_InFlightAtMost75 == Cardinality(InFlight) <= 75

\* C1 witness: 75 requests are in flight and another task of the batch waits
\* for a permit.
C1_Witness ==
    /\ Len(urls) > 75
    /\ Cardinality(InFlight) = 75
    /\ \E i \in 1..Len(task) : task[i] = "waiting"

\* C2: with F requests failing by a transport error or a status that is not
\* 2xx and the others succeeding, the batch returns exactly M - F bodies, one
\* for each successful descriptor and none for a failed one.
C2_FailuresAreDropped ==
    (BatchEnded /\ OnlyTransportOrStatusFailures) =>
        /\ ret.kind = "return"
        /\ ret.isList
        /\ Len(ret.items) = Cardinality(Successful)
        /\ \A i \in 1..Len(urls) :
              Occurrences(ret.items, BehaviourOf(i).body) =
                  IF i \in Successful
                  THEN Cardinality({j \in Successful : urls[j] = urls[i]})
                  ELSE 0

\* C2 witness: a batch of three requests ended in which the first request
\* succeeded and the second, completing first, failed by its status; the two
\* bodies of the successful requests were returned.
C2_Witness ==
    /\ BatchEnded
    /\ Len(urls) = 3
    /\ Successful = {1, 3}
    /\ StatusFails(BehaviourOf(2))
    /\ first_done = 2
    /\ ret.kind = "return"
    /\ Len(ret.items) = 2

\* Every request of the batch has one of the outcomes success, transport
\* error, error status, or 2xx with an undecodable body.
OnlyListedOutcomes ==
    \A i \in 1..Len(urls) :
        \/ Succeeds(BehaviourOf(i))
        \/ TransportFails(BehaviourOf(i))
        \/ StatusFails(BehaviourOf(i))
        \/ DecodeFails(BehaviourOf(i))

\* C3 as stated: whatever the per-request outcomes (success, transport error,
\* 5xx, 2xx with an undecodable body), the batch returns a collection and
\* does not raise.
C3_BatchNeverRaises ==
    (BatchEnded /\ OnlyListedOutcomes) => ret.kind = "return"

\* C3 amended: the batch does not raise for transport errors and error
\* statuses; it raises PianoResponseError, and returns nothing, exactly when
\* a 2xx response of the batch has an undecodable body.
C3_RaisesOnlyOnUndecodable ==
    (BatchEnded /\ OnlyListedOutcomes) =>
        IF \E i \in 1..Len(urls) : DecodeFails(BehaviourOf(i))
        THEN ret = Raise("PianoResponseError")
        ELSE /\ ret.kind = "return"
             /\ Len(ret.items) = Cardinality(Successful)

\* C3 witness: a batch with a success and an undecodable 2xx body ended by
\* raising PianoResponseError.
C3_Witness ==
    /\ BatchEnded
    /\ OnlyListedOutcomes
    /\ \E i, k \in 1..Len(urls) :
          /\ Succeeds(BehaviourOf(i))
          /\ DecodeFails(BehaviourOf(k))
    /\ ret = Raise("PianoResponseError")

\* C4: when the batch call has returned (or raised), every one of its
\* requests was sent and has reached a terminal state.
C4_ReturnsAfterAllTerminal ==
    (route = "batch" /\ pc = "done" /\ async_client # "none") =>
        /\ \A i \in 1..Len(task) : task[i] \in Terminal
        /\ Len(requests) = Len(urls)

\* C4 witness: a batch of three requests ended whose first completed request
\* was a failure while another request succeeded.
C4_Witness ==
    /\ BatchEnded
    /\ Len(urls) >= 3
    /\ first_done # 0
    /\ TransportFails(BehaviourOf(first_done))
    /\ \E j \in 1..Len(urls) : Succeeds(BehaviourOf(j))

\* C5 as stated: the returned collection is in completion order: the body of
\* the request that completed first, when it succeeded, comes first.
C5_CompletionOrder ==
    (BatchEnded /\ ret.kind = "return" /\ first_done \in Successful) =>
        ret.items[1] = BehaviourOf(first_done).body

\* The bodies of the successful requests from the i-th on, in input order.
RECURSIVE BodiesInInputOrder(_)
BodiesInInputOrder(i) ==
    IF i > Len(urls) THEN <<>>
    ELSE IF i \in Successful
    THEN <<BehaviourOf(i).body>> \o BodiesInInputOrder(i + 1)
    ELSE BodiesInInputOrder(i + 1)

\* C5 amended: the returned collection is in input order: the bodies of the
\* successful requests in the order their descriptors were submitted,
\* whatever the order in which the requests completed.
C5_InputOrder ==
    (BatchEnded /\ ret.kind = "return") => ret.items = BodiesInInputOrder(1)

\* C5 witness: two requests for different urls succeeded, the later one
\* completed first, and the earlier one's body is returned first.
C5_Witness ==
    /\ BatchEnded
    /\ ret.kind = "return"
    /\ Len(urls) = 2
    /\ urls[1] # urls[2]
    /\ Successful = {1, 2}
    /\ first_done = 2
    /\ ret.items = <<BehaviourOf(1).body, BehaviourOf(2).body>>

\* A call took the single-request path and the request reached the transport.
PlainSent == pc = "done" /\ route = "plain" /\ requests # <<>>

\* C6: on the single-request path exactly one request is made; a transport
\* failure, a status that is not 2xx and an undecodable body are raised as
\* PianoResponseError; a body is returned only for a 2xx response that
\* decodes, and it is that response's body.
C6_PlainRaisesResponseError ==
    (pc = "done" /\ route = "plain") =>
        /\ Len(requests) <= 1
        /\ requests = <<>> => inner.kind = "raise" /\ inner.exc # "PianoResponseError"
        /\ PlainSent =>
            LET b == transport[requests[1].url] IN
            /\ (TransportFails(b) \/ StatusFails(b) \/ DecodeFails(b))
                  => inner = Raise("PianoResponseError")
            /\ inner.kind = "return" <=> Succeeds(b)
            /\ Succeeds(b) => inner = Return(FALSE, <<b.body>>)

\* C6 witness: request() with a string path got a response with an error
\* status after one request and raised PianoResponseError.
C6_Witness ==
    /\ PlainSent
    /\ op.name = "request"
    /\ Len(requests) = 1
    /\ StatusFails(transport[requests[1].url])
    /\ ret = Raise("PianoResponseError")

\* The arguments of get_campaign_stats passed its validation.
StatsDispatched == op.name = "get_campaign_stats" /\ route # "none"

\* C7: get_campaign_stats takes the single-request path exactly when one id
\* was supplied (as a value or as a one-element list) and the batch path for
\* every other number of ids; on the single path a failing request raises
\* PianoResponseError, on the batch path it is dropped without raising;
\* request() takes the batch path exactly when its path is a list.
C7_SingleIffOneId ==
    /\ StatsDispatched =>
          /\ route = "plain" <=> Len(op.c_id.items) = 1
          /\ route = "batch" <=> Len(op.c_id.items) # 1
    /\ (StatsDispatched /\ PlainSent) =>
          LET b == transport[requests[1].url] IN
          (TransportFails(b) \/ StatusFails(b)) => ret = Raise("PianoResponseError")
    /\ (StatsDispatched /\ BatchEnded /\ OnlyTransportOrStatusFailures) =>
          ret.kind = "return" /\ Len(ret.items) = Cardinality(Successful)
    /\ op.name = "request" => (route = "batch" <=> op.path.isList)

\* C7 witness: get_campaign_stats with a one-element list took the single
\* path and raised PianoResponseError for the failing request.
C7_Witness ==
    /\ StatsDispatched
    /\ op.c_id.isList
    /\ Len(op.c_id.items) = 1
    /\ PlainSent
    /\ TransportFails(transport[requests[1].url])
    /\ ret = Raise("PianoResponseError")

\* C8: every request handed to the transport, on the single and on the batch
\* path, carries api_key exactly once and with the key of the client's
\* construction, whatever params the caller supplied.
C8_ApiKeyOnceAndOwn ==
    \A k \in 1..Len(requests) :
        /\ DictCount(requests[k].query, "api_key") = 1
        /\ requests[k].query[DictGet(requests[k].query, "api_key")][2] = <<API_KEY>>

\* C8 witness: a batch whose caller supplied params with an api_key of its
\* own has sent its requests.
C8_Witness ==
    /\ BatchEnded
    /\ op.name = "request"
    /\ "api_key" \in DictKeys(op.kwargs.params)
    /\ Len(requests) = 2
    /\ "bar" \in DictKeys(requests[2].query)

\* The entries of lists with a true 'Active' flag, in order.
RECURSIVE ActiveOnly(_)
ActiveOnly(lists) ==
    IF lists = <<>> THEN <<>>
    ELSE IF Head(lists).hasActive /\ Head(lists).Active
    THEN <<Head(lists)>> \o ActiveOnly(Tail(lists))
    ELSE ActiveOnly(Tail(lists))

\* C9: get_all_campaign returns the empty list when its request fails
\* (transport error, status that is not 2xx, undecodable body) and does not
\* raise; when the request succeeds it returns the 'lists' entries, only the
\* active ones when filter_active is true.
C9_AllCampaignSwallowsFailure ==
    (pc = "done" /\ op.name = "get_all_campaign") =>
        /\ Len(requests) = 1
        /\ LET b == transport[requests[1].url]
               lists == IF b.body.hasLists THEN b.body.lists ELSE <<>>
           IN  /\ (TransportFails(b) \/ StatusFails(b) \/ DecodeFails(b))
                     => ret = Return(TRUE, <<>>)
               /\ Succeeds(b) =>
                     ret = Return(TRUE, IF op.filter_active THEN ActiveOnly(lists)
                                                           ELSE lists)

\* C9 witness: the transport raised on the call of get_all_campaign, which
\* returned the empty list.
C9_Witness ==
    /\ pc = "done"
    /\ op.name = "get_all_campaign"
    /\ TransportFails(transport[requests[1].url])
    /\ inner = Raise("PianoResponseError")
    /\ ret = Return(TRUE, <<>>)

\* The value is a positive integer; the value is a calendar date.
IsPositiveInt(v) == v.t = "int" /\ v.i > 0
IsDate(v) == v.t = "date"

\* C10: get_campaign_stats with an id that is no positive integer, wherever
\* in the list, or with a start or end date that is missing or no date,
\* raises ValueError and no request was made.
C10_ValidationFailsFast ==
    ( /\ op.name = "get_campaign_stats"
      /\ \/ \E k \in 1..Len(op.c_id.items) : ~IsPositiveInt(op.c_id.items[k])
         \/ ~IsDate(op.start_date)
         \/ ~IsDate(op.end_date) ) =>
        /\ pc = "done"
        /\ ret = Raise("ValueError")
        /\ requests = <<>>
        /\ route = "none"

\* C10 witness: a list whose first id is valid and whose second is negative,
\* with valid dates, raised ValueError.
C10_Witness ==
    /\ op.name = "get_campaign_stats"
    /\ Len(op.c_id.items) >= 2
    /\ IsPositiveInt(op.c_id.items[1])
    /\ op.c_id.items[2] = PyInt(-1)
    /\ IsDate(op.start_date)
    /\ IsDate(op.end_date)
    /\ ret = Raise("ValueError")
    /\ requests = <<>>

\* The url get_campaign_stats requests for the campaign id.
StatsUrl(id) ==
    ENDPOINT \o <<"/", "stats", "/", "campaigns", "/", "full", "/", ToString(id.i)>>

\* get_campaign_stats sent its requests and every one of them succeeded.
StatsAllSucceeded ==
    /\ pc = "done"
    /\ StatsDispatched
    /\ \A u \in DOMAIN transport : Succeeds(transport[u])

\* C11: with every request succeeding, get_campaign_stats over a list of
\* M >= 2 valid ids makes exactly M requests, as many for each id as the list
\* holds it, and returns a list of M bodies; for one id it makes exactly one
\* request, which carries date_start and date_end, and returns its body.
C11_OneRequestPerId ==
    StatsAllSucceeded =>
        LET ids == op.c_id.items
            M == Len(ids)
        IN  /\ M >= 2 =>
                  /\ Len(requests) = M
                  /\ \A k \in 1..M :
                        Cardinality({j \in 1..Len(requests) :
                                        requests[j].url = StatsUrl(ids[k])})
                            = Cardinality({j \in 1..M : ids[j] = ids[k]})
                  /\ ret.kind = "return"
                  /\ ret.isList
                  /\ Len(ret.items) = M
            /\ M = 1 =>
                  /\ Len(requests) = 1
                  /\ requests[1].url = StatsUrl(ids[1])
                  /\ DictCount(requests[1].query, "date_start") = 1
                  /\ DictCount(requests[1].query, "date_end") = 1
                  /\ requests[1].query[DictGet(requests[1].query, "date_start")][2]
                        = strftime(op.start_date)
                  /\ requests[1].query[DictGet(requests[1].query, "date_end")][2]
                        = strftime(op.end_date)
                  /\ ret = Return(FALSE, <<transport[requests[1].url].body>>)

\* C11 witness: get_campaign_stats([1, 2, 1]) with every request succeeding
\* made three requests and returned three bodies.
C11_Witness ==
    /\ StatsAllSucceeded
    /\ op.c_id.items = <<PyInt(1), PyInt(2), PyInt(1)>>
    /\ Len(requests) = 3
    /\ requests[2].url = StatsUrl(PyInt(2))
    /\ <<"date_start", <<"2026", "-", "01", "-", "01">>>> \in Range(requests[2].query)
    /\ ret.kind = "return"
    /\ Len(ret.items) = 3

RECURSIVE TakeUntil(_, _)
\* The tokens of s before the first token in chars.
TakeUntil(s, chars) ==
    IF s = <<>> \/ Head(s) \in chars THEN <<>>
    ELSE <<Head(s)>> \o TakeUntil(Tail(s), chars)

\* urlparse(url).netloc: what stands between the "//" after the scheme and
\* the next "/" or "?"; empty without "//".
Netloc(url) ==
    IF HasNetloc(url)
    THEN TakeUntil(Tail(Tail(AfterScheme(LStrip(url, {" "}), Find(LStrip(url, {" "}), ":")))),
                   {"/", "?"})
    ELSE <<>>

\* urlparse(url).hostname is not empty: the netloc starts with a host name.
HasHost(url) == HasNetloc(url) /\ Head(Netloc(url)) \notin {":", " "}

\* The string is empty, whitespace only or slashes only.
Blank(p) == Range(p) \subseteq {" "} \/ Range(p) \subseteq {"/"}

\* validate_path(path) and get_url(path) were called on their own.
ValidatePathCalled == pc = "done" /\ op.name = "validate_path"
GetUrlCalled == pc = "done" /\ op.name = "get_url"

\* The host never differs: a url get_url returns has the host of ENDPOINT.
HostIsEndpoint ==
    (GetUrlCalled /\ ret.kind = "return") => Netloc(ret.items[1]) = Netloc(ENDPOINT)

\* C12 as stated: validate_path fails for every path with a scheme or a host
\* and for the empty, whitespace-only or all-slash string, and get_url never
\* yields a url with another host than the endpoint's.
C12_RejectsSchemeOrHost ==
    /\ ValidatePathCalled =>
          ((HasScheme(op.path.items[1]) \/ HasHost(op.path.items[1])
                \/ Blank(op.path.items[1]))
              => ret = Raise("ValueError"))
    /\ HostIsEndpoint

\* C12 amended: validate_path fails for every path that has a scheme, also
\* behind leading blanks and slashes, and for the empty, whitespace-only or
\* all-slash string; a path with a host and no scheme ("//host/x") passes
\* unless what follows its slashes has a scheme, and comes back without its
\* leading slashes; get_url never yields a url with another host than the
\* endpoint's.
C12_RejectsSchemeNotBareHost ==
    /\ ValidatePathCalled =>
          LET p == op.path.items[1]
              stripped == Strip(Strip(p, {" "}), {"/"})
          IN  /\ (HasScheme(p) \/ HasScheme(stripped) \/ Blank(p))
                    => ret = Raise("ValueError")
              /\ (HasHost(p) /\ ~HasScheme(p) /\ ~HasScheme(stripped))
                    => ret = Return(FALSE, <<stripped>>)
    /\ HostIsEndpoint

\* C12 witness: validate_path("//evil.example") returned "evil.example".
C12_Witness ==
    /\ ValidatePathCalled
    /\ op.path.items[1] = <<"/", "/", "evil.example">>
    /\ ret = Return(FALSE, <<<<"evil.example">>>>)

\* ------------------------------------------------ db.py: SessionSingleton
\* The client is idle while db.py is used.
ClientIdle ==
    /\ pc = "idle"
    /\ UNCHANGED <<pc, op, route, inner, ret, requests, transport, urls, task, sem_value,
                   waiters, async_client, async_params, batch_method, first_done>>

\* The dialects sqlalchemy knows in this installation.
Dialects == {"sqlite", "postgresql"}

\* create_engine(url) accepts the url: a string of the form dialect://...
EngineAccepts(url) ==
    /\ url.t = "str"
    /\ Len(url.s) >= 4
    /\ url.s[1] \in Dialects
    /\ url.s[2] = ":" /\ url.s[3] = "/" /\ url.s[4] = "/"

\* A SessionSingleton object: the url of its engine, and whether close() was
\* called on it.
Session(url) == [bind |-> url.s, closed |-> FALSE]

\* What a construction gives: the exception, the session returned, and the
\* registered session and the sessions after it.
Constructed(exc, handle, registered, ss) ==
    [exc |-> exc, handle |-> handle, registered |-> registered, sessions |-> ss]

\* SessionSingleton(connection_url) with the session reg registered (0: none)
\* and the sessions ss created so far: __new__ gives the registered session or
\* a new object, __init__ raises TypeError without a url, returns at once on
\* the registered session, and otherwise creates the engine and registers
\* the new session.
Construct(reg, ss, connection_url) ==
    IF ~Truthy(connection_url) THEN Constructed("TypeError", 0, reg, ss)
    ELSE IF reg # 0 THEN Constructed("none", reg, reg, ss)
    ELSE IF ~EngineAccepts(connection_url) THEN Constructed("ArgumentError", 0, reg, ss)
    ELSE Constructed("none", Len(ss) + 1, Len(ss) + 1, Append(ss, Session(connection_url)))

\* The outcome o of a construction becomes the state.
Store(o) ==
    /\ Len(o.sessions) <= MaxSessions
    /\ _instance' = o.registered
    /\ sessions' = o.sessions

\* SessionSingleton(connection_url)
SessionSingleton(connection_url) ==
    \E o \in {Construct(_instance, sessions, connection_url)} :
        /\ Store(o)
        /\ db_call' = DbCall("SessionSingleton", connection_url, 0, o.exc, PyNone, o.handle)
        /\ UNCHANGED <<builder, env>>

\* SessionSingleton.close(self) on the session h.
close(h) ==
    /\ sessions' = [sessions EXCEPT ![h].closed = TRUE]
    /\ _instance' = 0
    /\ db_call' = DbCall("close", PyNone, h, "none", PyNone, 0)
    /\ UNCHANGED <<builder, env>>

\* SessionSingleton.get_instance()
get_instance ==
    /\ db_call' = DbCall("get_instance", PyNone, 0,
                         IF _instance = 0 THEN "RuntimeError" ELSE "none",
                         PyNone, _instance)
    /\ UNCHANGED <<builder, _instance, sessions, env>>

\* The urls a caller passes as connection_url or fallback_url: none, the
\* empty string, two urls an engine accepts and one it does not.
SqliteFile == <<"sqlite", ":", "/", "/", "/", "test.db">>
SqliteMemory == <<"sqlite", ":", "/", "/", "/", ":", "memory", ":">>
UrlArgs == {PyNone, PyStr(<<>>), PyStr(SqliteFile), PyStr(SqliteMemory), PyStr(<<"test.db">>)}

CallSessionSingleton ==
    /\ ClientIdle
    /\ \E u \in UrlArgs : SessionSingleton(u)

CallClose ==
    /\ ClientIdle
    /\ \E h \in 1..Len(sessions) : close(h)

CallGetInstance ==
    /\ ClientIdle
    /\ get_instance

\* --------------------------------------------------- db.py: PyDBCBuilder
\* What a setter gives: the exception, or the builder with the field stored.
Set(exc, b) == [exc |-> exc, builder |-> b]

\* PyDBCBuilder.set_driver(driver)
set_driver(b, driver) ==
    IF driver.t # "str" THEN Set("TypeError", b)
    ELSE IF ~Truthy(driver) THEN Set("ValueError", b)
    ELSE Set("none", [b EXCEPT !._driver = driver])

\* PyDBCBuilder.set_username(username)
set_username(b, username) ==
    IF username.t # "str" THEN Set("TypeError", b)
    ELSE Set("none", [b EXCEPT !._username = username])

\* PyDBCBuilder.set_password(password)
set_password(b, password) ==
    IF password.t # "str" THEN Set("TypeError", b)
    ELSE IF ~Truthy(password) THEN Set("ValueError", b)
    ELSE Set("none", [b EXCEPT !._password = password])

\* PyDBCBuilder.set_host(host)
set_host(b, host) ==
    IF host.t # "str" THEN Set("TypeError", b)
    ELSE IF ~Truthy(host) THEN Set("ValueError", b)
    ELSE Set("none", [b EXCEPT !._host = host])

\* PyDBCBuilder.set_port(port)
set_port(b, port) ==
    IF port.t # "int" THEN Set("TypeError", b)
    ELSE IF ~(1024 <= port.i /\ port.i <= 65535) THEN Set("ValueError", b)
    ELSE Set("none", [b EXCEPT !._port = port])

\* PyDBCBuilder.set_database_name(database_name)
set_database_name(b, database_name) ==
    IF database_name.t # "str" THEN Set("TypeError", b)
    ELSE IF ~Truthy(database_name) THEN Set("ValueError", b)
    ELSE Set("none", [b EXCEPT !._database_name = database_name])

\* A dict argument: its items are <<key, value>> pairs.
PyDict(items) == [t |-> "dict", i |-> 0, s |-> items]

\* PyDBCBuilder.set_params(params): the items whose value is None are dropped.
set_params(b, params) ==
    IF params.t # "dict" THEN Set("TypeError", b)
    ELSE IF SelectSeq(params.s, LAMBDA kv : kv[2].t # "None") = <<>>
    THEN Set("ValueError", b)
    ELSE Set("none", [b EXCEPT !._params = SelectSeq(params.s, LAMBDA kv : kv[2].t # "None")])

\* quote_plus of one token: a word stays, a blank becomes "+", the other
\* tokens are percent-encoded unless they are made of safe characters.
QuoteToken(tok, safe) ==
    CASE tok = " " -> "+"
      [] tok = "@" -> "%40"
      [] tok = ":" -> "%3A"
      [] tok = "/" -> "%2F"
      [] tok = "***" -> IF "*" \in safe THEN "***" ELSE "%2A%2A%2A"
      [] OTHER -> tok

\* urllib.parse.quote_plus(s, safe=safe)
quote_plus(str, safe) == [k \in 1..Len(str) |-> QuoteToken(str[k], safe)]

RECURSIVE Digits(_)
\* str(n) for n >= 0, one token for each digit.
Digits(n) == IF n < 10 THEN <<ToString(n)>> ELSE Digits(n \div 10) \o <<ToString(n % 10)>>

\* PyDBCBuilder._build_netloc for the quoted username, given the fields.
Netlocation(b, username) ==
    IF ~Truthy(b._host) THEN <<>>
    ELSE username
         \o (IF Truthy(b._password) /\ username # <<>>
             THEN <<":">> \o quote_plus(b._password.s, {"*"}) ELSE <<>>)
         \o (IF username # <<>> THEN <<"@">> \o b._host.s ELSE b._host.s)
         \o (IF Truthy(b._port) THEN <<":">> \o Digits(b._port.i) ELSE <<>>)

\* PyDBCBuilder._build_netloc()
_build_netloc(b) ==
    Netlocation(b, IF Truthy(b._username) THEN quote_plus(b._username.s, {}) ELSE <<>>)

RECURSIVE UrlEncode(_)
\* urlencode(params, doseq=True) for string values.
UrlEncode(items) ==
    IF items = <<>> THEN <<>>
    ELSE <<Head(items)[1], "=">> \o quote_plus(Head(items)[2].s, {})
         \o (IF Tail(items) = <<>> THEN <<>> ELSE <<"&">> \o UrlEncode(Tail(items)))

\* PyDBCBuilder._build_params()
_build_params(b) == IF b._params # <<>> THEN UrlEncode(b._params) ELSE <<>>

\* urlunparse((scheme, netloc, path, '', query, '')) for a netloc that is not
\* empty.
UrlUnparse(scheme, netloc, path, query) ==
    scheme \o <<":", "/", "/">> \o netloc
        \o (IF path # <<>> /\ Head(path) # "/" THEN <<"/">> \o path ELSE path)
        \o (IF query # <<>> THEN <<"?">> \o query ELSE <<>>)

\* What build() gives: the exception, or the url.
Built(exc, url) == [exc |-> exc, value |-> PyStr(url)]

\* PyDBCBuilder.build()
build(b) ==
    IF ~Truthy(b._driver) THEN Built("ValueError", <<>>)
    ELSE IF ~Truthy(b._database_name) THEN Built("ValueError", <<>>)
    ELSE IF _build_netloc(b) = <<>>
    THEN Built("none", UrlUnparse(b._driver.s, b._database_name.s, <<>>, _build_params(b)))
    ELSE Built("none", UrlUnparse(b._driver.s, _build_netloc(b), b._database_name.s,
                                  _build_params(b)))

\* ----------------------------------------------------- db.py: get_session
\* os.getenv(name, default) for the variable's value v.
Getenv(v, default) == IF v.t = "None" THEN default ELSE v

\* The digit a token stands for.
DigitOf(tok) == CHOOSE d \in 0..9 : ToString(d) = tok

RECURSIVE IntOf(_, _)
\* int(str) for a string of digits, most significant first.
IntOf(str, acc) ==
    IF str = <<>> THEN acc ELSE IntOf(Tail(str), 10 * acc + DigitOf(Head(str)))

\* int(v): TypeError for None, ValueError for a string that is no number.
EnvInt(v, b) ==
    IF v.t # "str" THEN Set("TypeError", b)
    ELSE IF v.s = <<>> \/ \E k \in 1..Len(v.s) : v.s[k] \notin NumberWords
    THEN Set("ValueError", b)
    ELSE set_port(b, PyInt(IntOf(v.s, 0)))

\* from_env, the setters in their order; each runs when those before it did
\* not raise.
EnvDriver(e) == set_driver(NewBuilder, Getenv(e.DRIVER, PyStr(<<"sqlite">>)))
EnvUsername(e, r) ==
    IF r.exc # "none" THEN r ELSE set_username(r.builder, Getenv(e.USERNAME, PyStr(<<>>)))
EnvPassword(e, r) == IF r.exc # "none" THEN r ELSE set_password(r.builder, e.PASSWORD)
EnvHost(e, r) == IF r.exc # "none" THEN r ELSE set_host(r.builder, e.HOST)
EnvPort(e, r) == IF r.exc # "none" THEN r ELSE EnvInt(e.PORT, r.builder)
EnvName(e, r) == IF r.exc # "none" THEN r ELSE set_database_name(r.builder, e.NAME)

\* What from_env gives: the exception, or a string, or a builder.
FromEnv(exc, kind, value, b) == [exc |-> exc, kind |-> kind, value |-> value, builder |-> b]

\* from_env after the setters gave r: a TypeError becomes ValueError, a
\* ValueError propagates.
FromEnvResult(r) ==
    IF r.exc # "none" THEN FromEnv("ValueError", "none", PyNone, NewBuilder)
    ELSE FromEnv("none", "builder", PyNone, r.builder)

\* PyDBCBuilder.from_env(): with DB_URL set it returns that string.
from_env(e) ==
    IF Truthy(e.URL) THEN FromEnv("none", "str", e.URL, NewBuilder)
    ELSE FromEnvResult(EnvName(e, EnvPort(e, EnvHost(e, EnvPassword(e,
                           EnvUsername(e, EnvDriver(e)))))))

\* PyDBCBuilder.from_env().build(): a str has no build().
FromEnvBuild(f) ==
    IF f.exc # "none" THEN Built(f.exc, <<>>)
    ELSE IF f.kind = "str" THEN Built("AttributeError", <<>>)
    ELSE build(f.builder)

\* get_session, the inner try: SessionSingleton(PyDBCBuilder.from_env().build())
FirstTry(ss, c) ==
    IF c.exc # "none" THEN Constructed(c.exc, 0, 0, ss) ELSE Construct(0, ss, c.value)

\* get_session, the inner try with its handler: any exception leads to
\* SessionSingleton(fallback_url if fallback_url else 'sqlite:///:memory:').
WithFallback(ss, first, fallback_url) ==
    IF first.exc = "none" THEN first
    ELSE Construct(0, ss, IF Truthy(fallback_url) THEN fallback_url ELSE PyStr(SqliteMemory))

\* get_session(fallback_url)
get_session(fallback_url) ==
    /\ IF _instance # 0
       THEN /\ db_call' = DbCall("get_session", fallback_url, 0, "none", PyNone, _instance)
            /\ UNCHANGED <<_instance, sessions>>
       ELSE \E o \in {WithFallback(sessions, FirstTry(sessions, FromEnvBuild(from_env(env))),
                                   fallback_url)} :
              /\ Store(o)
              /\ db_call' = DbCall("get_session", fallback_url, 0, o.exc, PyNone, o.handle)
    /\ UNCHANGED <<builder, env>>

CallGetSession ==
    /\ ClientIdle
    /\ \E u \in UrlArgs : get_session(u)

\* The environments of a process: nothing set; DB_URL set; every variable
\* set; the password missing; a port outside the range; a driver sqlalchemy
\* does not know.
EnvUrl == [NoEnv EXCEPT !.URL = PyStr(SqliteFile)]
EnvFull ==
    [URL |-> Unset, DRIVER |-> PyStr(<<"postgresql">>), USERNAME |-> PyStr(<<"user">>),
     PASSWORD |-> PyStr(<<"psw">>), HOST |-> PyStr(<<"host">>),
     PORT |-> PyStr(<<"5", "4", "3", "2">>), NAME |-> PyStr(<<"name">>)]
EnvNoPassword == [EnvFull EXCEPT !.PASSWORD = Unset]
EnvBadPort == [EnvFull EXCEPT !.PORT = PyStr(<<"8", "0">>)]
EnvBadDriver == [EnvFull EXCEPT !.DRIVER = PyStr(<<"mysqlx">>)]
Envs == {NoEnv, EnvUrl, EnvFull, EnvNoPassword, EnvBadPort, EnvBadDriver}

InitSession ==
    /\ ClientInit
    /\ DbInit
    /\ env \in Envs

NextSession ==
    \/ CallSessionSingleton
    \/ CallClose
    \/ CallGetInstance
    \/ CallGetSession

SpecSession == InitSession /\ [][NextSession]_vars

\* -------------------------------------------- db.py: calls on one builder
\* The value a setter returns: the builder it was called on.
Self == [t |-> "self", i |-> 0, s |-> <<>>]

\* What __str__ gives: the exception or the url, and the builder after it.
Shown(exc, value, b) == [exc |-> exc, value |-> value, builder |-> b]

\* __str__ after build() on the builder with the masked password gave r: an
\* exception of build() leaves before the password is put back.
StrResult(b, masked, r) ==
    IF r.exc # "none" THEN Shown(r.exc, PyNone, masked)
    ELSE Shown("none", r.value,
               [masked EXCEPT !._password = IF Truthy(b._password) THEN b._password
                                            ELSE PyStr(<<>>)])

\* The builder while __str__ builds: self._password = '***'
Masked(b) == [b EXCEPT !._password = PyStr(<<"***">>)]

\* PyDBCBuilder.__str__()
__str__(b) == StrResult(b, Masked(b), build(Masked(b)))

\* A setter called on the builder with the outcome r.
SetterCall(name, arg, r) ==
    /\ builder' = r.builder
    /\ db_call' = DbCall(name, arg, 0, r.exc, IF r.exc = "none" THEN Self ELSE PyNone, 0)
    /\ UNCHANGED <<_instance, sessions, env>>

\* The arguments a caller passes to the setters of strings: None, a number,
\* the empty string, and strings.
StrArgs == {PyNone, PyInt(1), PyStr(<<>>), PyStr(<<"foo">>), PyStr(<<"bar">>)}
PortArgs == {PyNone, PyStr(<<"5", "4", "3", "2">>), PyInt(80), PyInt(5432), PyInt(65536)}
ParamArgs ==
    {PyNone, PyDict(<<>>), PyDict(<< <<"k", PyNone>> >>), PyDict(<< <<"k", PyStr(<<"v">>)>> >>)}

CallSetDriver ==
    /\ ClientIdle
    /\ \E a \in StrArgs : SetterCall("set_driver", a, set_driver(builder, a))

CallSetUsername ==
    /\ ClientIdle
    /\ \E a \in StrArgs : SetterCall("set_username", a, set_username(builder, a))

CallSetPassword ==
    /\ ClientIdle
    /\ \E a \in StrArgs : SetterCall("set_password", a, set_password(builder, a))

CallSetHost ==
    /\ ClientIdle
    /\ \E a \in StrArgs : SetterCall("set_host", a, set_host(builder, a))

CallSetPort ==
    /\ ClientIdle
    /\ \E a \in PortArgs : SetterCall("set_port", a, set_port(builder, a))

CallSetDatabaseName ==
    /\ ClientIdle
    /\ \E a \in StrArgs : SetterCall("set_database_name", a, set_database_name(builder, a))

CallSetParams ==
    /\ ClientIdle
    /\ \E a \in ParamArgs : SetterCall("set_params", a, set_params(builder, a))

CallBuild ==
    /\ ClientIdle
    /\ \E r \in {build(builder)} :
           db_call' = DbCall("build", PyNone, 0, r.exc,
                             IF r.exc = "none" THEN r.value ELSE PyNone, 0)
    /\ UNCHANGED <<builder, _instance, sessions, env>>

CallStr ==
    /\ ClientIdle
    /\ \E r \in {__str__(builder)} :
           /\ builder' = r.builder
           /\ db_call' = DbCall("__str__", PyNone, 0, r.exc, r.value, 0)
    /\ UNCHANGED <<_instance, sessions, env>>

NextBuilder ==
    \/ CallSetDriver
    \/ CallSetUsername
    \/ CallSetPassword
    \/ CallSetHost
    \/ CallSetPort
    \/ CallSetDatabaseName
    \/ CallSetParams
    \/ CallBuild
    \/ CallStr

SpecBuilder == Init /\ [][NextBuilder]_vars

\* ------------------------------------------------------------ claim C13
\* The last call was a construction that returned a session.
Constructs == db_call.name = "SessionSingleton" /\ db_call.exc = "none"

\* The last call was a construction that raised.
ConstructFails == db_call.name = "SessionSingleton" /\ db_call.exc # "none"

\* The last call closed a session that had been closed before.
ClosesClosed == db_call.name = "close" /\ db_call.self_closed

\* C13: after any sequence of constructions, close() and get_instance() at
\* most one session is registered; a construction that succeeds returns the
\* registered session when there is one, and a new session, which it
\* registers, only when there is none; a construction that fails registers
\* nothing and creates nothing; get_instance raises RuntimeError exactly when
\* no session is registered and returns the registered one otherwise; closing
\* a session that is already closed raises nothing and leaves the registry as
\* it was.
C13_SingletonRegistry ==
    /\ _instance \in 0..Len(sessions)
    /\ Constructs /\ db_call.registered # 0 =>
           /\ db_call.handle = db_call.registered
           /\ _instance = db_call.registered
           /\ Len(sessions) = db_call.created
    /\ Constructs /\ db_call.registered = 0 =>
           /\ db_call.handle = db_call.created + 1
           /\ _instance = db_call.handle
           /\ Len(sessions) = db_call.created + 1
    /\ ConstructFails =>
           /\ _instance = db_call.registered
           /\ Len(sessions) = db_call.created
    /\ db_call.name = "get_instance" =>
           /\ db_call.exc = "RuntimeError" <=> db_call.registered = 0
           /\ db_call.exc = "none" => db_call.handle = db_call.registered
    /\ ClosesClosed =>
           /\ db_call.exc = "none"
           /\ _instance = db_call.registered

\* ------------------------------------------------------------ claim C14
\* The connection an environment configures: the url in DB_URL when set, else
\* the url built from the other variables.
EnvConnection(e) == IF Truthy(e.URL) THEN Built("none", e.URL.s) ELSE FromEnvBuild(from_env(e))

\* The environment holds a valid configuration: a connection an engine can be
\* created for.
EnvValid(e) == EnvConnection(e).exc = "none" /\ EngineAccepts(EnvConnection(e).value)

\* The fallback store of get_session(fallback_url).
FallbackStore(fallback_url) == IF Truthy(fallback_url) THEN fallback_url.s ELSE SqliteMemory

\* The last call was get_session with no session registered, and it returned.
GetSessionCreates ==
    db_call.name = "get_session" /\ db_call.registered = 0 /\ db_call.exc = "none"

\* C14: get_session returns the registered session when there is one;
\* otherwise the session it creates is bound to the connection configured in
\* the environment whenever that configuration is valid (a url in DB_URL
\* included), and to the fallback store (in memory by default) only when the
\* configuration is absent or invalid.
C14_BoundToEnvironment ==
    /\ db_call.name = "get_session" /\ db_call.registered # 0 =>
           /\ db_call.exc = "none"
           /\ db_call.handle = db_call.registered
           /\ Len(sessions) = db_call.created
    /\ GetSessionCreates =>
           /\ db_call.handle = db_call.created + 1
           /\ _instance = db_call.handle
           /\ sessions[db_call.handle].bind =
                  IF EnvValid(env) THEN EnvConnection(env).value.s
                  ELSE FallbackStore(db_call.arg)

\* ------------------------------------------------------------ claim C15
\* The setters of the claim and the field each one stores.
StringSetters ==
    {"set_driver", "set_username", "set_password", "set_host", "set_database_name"}

FieldOf(b, name) ==
    CASE name = "set_driver" -> b._driver
      [] name = "set_username" -> b._username
      [] name = "set_password" -> b._password
      [] name = "set_host" -> b._host
      [] name = "set_database_name" -> b._database_name

\* The builder b with the field of the setter holding v.
WithField(b, name, v) ==
    CASE name = "set_driver" -> [b EXCEPT !._driver = v]
      [] name = "set_username" -> [b EXCEPT !._username = v]
      [] name = "set_password" -> [b EXCEPT !._password = v]
      [] name = "set_host" -> [b EXCEPT !._host = v]
      [] name = "set_database_name" -> [b EXCEPT !._database_name = v]

\* C15: each of set_driver, set_username, set_password, set_host and
\* set_database_name raises ValueError for the empty string and leaves the
\* builder, the value stored before included, as it was; for a string that is
\* not empty it stores the value in its field, changes no other field and
\* returns the builder itself.
C15_EmptyStringRejected ==
    db_call.name \in StringSetters /\ db_call.arg.t = "str" =>
        IF db_call.arg.s = <<>>
        THEN /\ db_call.exc = "ValueError"
             /\ builder = db_call.before
        ELSE /\ db_call.exc = "none"
             /\ db_call.value = Self
             /\ builder = WithField(db_call.before, db_call.name, db_call.arg)

\* ------------------------------------------------------------ claim C16
\* The tasks of the running batch that hold a permit: those with a request in
\* flight, and those woken with the permit handed to them.
Holders == {i \in 1..Len(task) : task[i] \in {"inflight", "woken"}}

\* A batch call has exited, by return or by exception.
BatchExited == route = "batch" /\ pc = "done" /\ async_client # "none"

\* A batch call has just started: no task has taken a step.
BatchStarts == pc = "gather" /\ \A i \in 1..Len(task) : task[i] = "created"

\* C16: the limiter and the network client belong to one batch call.  While
\* the batch runs, the free permits and the permits held add up to 75;
\* whenever a batch call has exited, by return or by an exception, its client
\* is closed, no task holds a permit or waits for one, and all 75 permits are
\* free; every batch call, whatever the calls before it did, starts with an
\* open client of its own and a limiter with 75 free permits and no waiter.
C16_ScopedToOneCall ==
    /\ pc = "gather" =>
           /\ sem_value + Cardinality(Holders) = SEMAPHORE_VALUE
           /\ async_client = "open"
    /\ BatchExited =>
           /\ async_client = "closed"
           /\ Holders = {}
           /\ waiters = <<>>
           /\ sem_value = SEMAPHORE_VALUE
    /\ BatchStarts =>
           /\ async_client = "open"
           /\ sem_value = SEMAPHORE_VALUE
           /\ waiters = <<>>
    /\ pc = "idle" => async_client = "none" /\ task = <<>>

\* A batch of more than 75 requests has exited by an exception, after a task
\* had to wait for a permit: the client is closed and the 75 permits are free.
C16_Witness ==
    /\ BatchExited
    /\ ret.kind = "raise"
    /\ Len(task) > SEMAPHORE_VALUE
    /\ async_client = "closed"
    /\ sem_value = SEMAPHORE_VALUE

\* ------------------------------------------------------------ claim C17
\* The batch call has finished and every one of its requests was admitted
\* by the limiter and sent.
BatchFinished ==
    /\ pc = "done"
    /\ route = "batch"
    /\ GatherDone
    /\ Len(requests) = Len(task)

\* C17: when the event loop is fair and every network operation ends, a batch
\* of any size, also of more than 75 requests, eventually finishes with every
\* request admitted by the limiter: a task gives its permit back on every
\* outcome, so no task waits forever.
C17_BatchFinishes == (pc = "gather") ~> BatchFinished

\* A batch of more than 75 requests has finished with all its requests sent,
\* one of them ended by an exception that is no HTTPError.
C17_Witness ==
    /\ BatchFinished
    /\ Len(task) > SEMAPHORE_VALUE
    /\ \E i \in 1..Len(task) : task[i] = "exception"

\* ------------------------------------------------------------ claim C18
\* C18: str(builder) leaves every field of the builder as it was before the
\* call, the password included, also when build() raises because the driver
\* or the database name is missing.
C18_StrLeavesBuilder ==
    db_call.name = "__str__" => builder = db_call.before

====
